---- MODULE Spec2Model ----
(***************************************************************************)
(* NAT behavior discovery (RFC 5780) of src/nat_behavior_discovery.rs:     *)
(* check_nat_mapping_behavior and check_nat_filtering_behavior as a state  *)
(* machine whose steps are the segments of the async functions between     *)
(* two awaits.                                                             *)
(***************************************************************************)
EXTENDS Naturals, Sequences, FiniteSets, TLC

\* ---------------------------------------------------------------- bounds
NumIPs == 2
NumPorts == 2
MaxResolved == 2

\* ----------------------------------------------------------- value space
\* Option<T>: None is the empty set, Some(x) is {x}.
None == {}
Some(x) == {x}
Option(S) == {None} \cup {Some(x) : x \in S}
Unwrap(o) == CHOOSE x \in o : TRUE

\* IP addresses and ports a mapped (client side) address can take.
IPs == 1..NumIPs
Ports == 1..NumPorts
MappedAddrs == [ip : IPs, port : Ports]

\* Addresses of the STUN server: the primary and the alternate IP and port.
ServerIPs == {101, 102}
ServerPorts == {3478, 3479}
ServerAddrs == [ip : ServerIPs, port : ServerPorts]

\* STUNClientError values a binding request can fail with, and the
\* NotSupportedError the procedures build themselves.
TimeoutError == [variant |-> "TimeoutError", arg |-> ""]
IOError == [variant |-> "IOError", arg |-> ""]
ParseError == [variant |-> "ParseError", arg |-> ""]
NotSupportedError(s) == [variant |-> "NotSupportedError", arg |-> s]
TransportErrors == {TimeoutError, IOError, ParseError}

\* What client.binding_request(..).await evaluates to: Ok(message) with the
\* attributes the message carries, or Err(e).
OkResponses ==
    [kind : {"Ok"}, xor_mapped_address : Option(MappedAddrs),
     other_address : Option(ServerAddrs), err : {None}]
ErrResponses ==
    [kind : {"Err"}, xor_mapped_address : {None},
     other_address : {None}, err : {Some(e) : e \in TransportErrors}]
BindingOutcomes == OkResponses \cup ErrResponses
NoResponse ==
    [kind |-> "None", xor_mapped_address |-> None, other_address |-> None,
     err |-> None]

\* Attribute::get_other_address / Attribute::get_xor_mapped_address
get_other_address(res) == res.other_address
get_xor_mapped_address(res) == res.xor_mapped_address

\* Attribute::generate_change_request_value(change_ip, change_port)
generate_change_request_value(change_ip, change_port) ==
    [change_ip |-> change_ip, change_port |-> change_port]

\* list_afinet_netifas(): Err, or the IPs of the local interfaces.
NetifasOutcomes == [ok : BOOLEAN, ips : SUBSET IPs]

\* stun_addr.to_socket_addrs().await: Err, or an iterator over the resolved
\* addresses (possibly empty): the IPs of the host of stun_addr, each with
\* the port of stun_addr.
ResolvedAddrs == [ip : ServerIPs, port : {3478}]
RECURSIVE SeqsUpTo(_, _)
SeqsUpTo(S, n) ==
    IF n = 0 THEN {<<>>}
    ELSE LET shorter == SeqsUpTo(S, n - 1)
         IN shorter \cup {Append(s, x) : s \in shorter, x \in S}
ResolveOutcomes == [ok : BOOLEAN, addrs : SeqsUpTo(ResolvedAddrs, MaxResolved)]

\* The target of a request: the caller's stun_addr, or a socket address.
StunAddrTarget == [kind |-> "stun_addr", addr |-> None]
SocketTarget(a) == [kind |-> "socket", addr |-> Some(a)]

\* ------------------------------------------------------------- variables
VARIABLES
    proc,             \* which procedure was invoked
    pc,               \* the await the invocation is suspended at
    local_ips,        \* local_ips of check_nat_mapping_behavior
    other_addr,       \* other_addr of check_nat_mapping_behavior
    result,           \* result of check_nat_mapping_behavior
    xor_mapped_addr,  \* xor_mapped_addr of check_nat_filtering_behavior
    t1_res, t2_res, t3_res,   \* what the three binding requests evaluated to
    requests,         \* the binding requests issued so far, in order
    stun_addrs,       \* what stun_addr resolved to, while Test3 is in flight
    ret               \* what the invocation returned, or that it panicked

vars == <<proc, pc, local_ips, other_addr, result, xor_mapped_addr,
          t1_res, t2_res, t3_res, requests, stun_addrs, ret>>

\* ------------------------------------------------------- result values
NATMappingTypeResult(a1, a2, a3, t) ==
    [test1_xor_mapped_addr |-> a1, test2_xor_mapped_addr |-> a2,
     test3_xor_mapped_addr |-> a3, mapping_type |-> t]
NATFilteringTypeResult(a, t) ==
    [xor_mapped_addr |-> a, filtering_type |-> t]

NoRet == [kind |-> "None", err |-> None, mapping |-> None, filtering |-> None]
RetErr(e) == [kind |-> "Err", err |-> Some(e), mapping |-> None, filtering |-> None]
RetOkMapping(r) == [kind |-> "Ok", err |-> None, mapping |-> Some(r), filtering |-> None]
RetOkFiltering(r) == [kind |-> "Ok", err |-> None, mapping |-> None, filtering |-> Some(r)]
RetPanic == [kind |-> "Panic", err |-> None, mapping |-> None, filtering |-> None]

\* No resolution of stun_addr is held.
NoResolution == [ok |-> FALSE, addrs |-> <<>>]

Request(test, target, attrs) == [test |-> test, target |-> target, attrs |-> attrs]

Init ==
    /\ proc = "none"
    /\ pc = "idle"
    /\ local_ips = {}
    /\ other_addr = None
    /\ result = NATMappingTypeResult(None, None, None, "Unknown")
    /\ xor_mapped_addr = None
    /\ t1_res = NoResponse
    /\ t2_res = NoResponse
    /\ t3_res = NoResponse
    /\ requests = <<>>
    /\ stun_addrs = NoResolution
    /\ ret = NoRet

\* ------------------------------------------------ helpers of both procedures
\* The `?` after client.binding_request(..).await: an Err is returned as is.
PropagatesAsTimeoutAware(res) ==
    res.kind = "Err" /\ Unwrap(res.err) # TimeoutError
Propagates(res) == res.kind = "Err"

\* get_xor_mapped_address(&res).ok_or(NotSupportedError("XOR-MAPPED-ADDRESS"))?
\* preceded by the `?` of the request: the error returned, or None.
RequireXorMappedLenient(res) ==
    IF Propagates(res) THEN res.err ELSE None
RequireXorMapped(res) ==
    IF Propagates(res) THEN res.err
    ELSE IF get_xor_mapped_address(res) = None
         THEN Some(NotSupportedError("XOR-MAPPED-ADDRESS"))
         ELSE None

\* match e { STUNClientError::TimeoutError() => .., _ => return Err(e) }
IsTimeoutErrorAny(e) == TRUE
IsTimeoutError(e) == e = TimeoutError

\* ------------------------------------------- check_nat_mapping_behavior
\* Test1: the `?` of the request, then OTHER-ADDRESS, then XOR-MAPPED-ADDRESS.
MappingTest1ErrWrongName(res) ==
    IF Propagates(res) THEN res.err
    ELSE IF get_other_address(res) = None
         THEN Some(NotSupportedError("XOR-MAPPED-ADDRESS"))
         ELSE IF get_xor_mapped_address(res) = None
              THEN Some(NotSupportedError("XOR-MAPPED-ADDRESS"))
              ELSE None
MappingTest1ErrXorFirst(res) ==
    IF Propagates(res) THEN res.err
    ELSE IF get_xor_mapped_address(res) = None
         THEN Some(NotSupportedError("XOR-MAPPED-ADDRESS"))
         ELSE IF get_other_address(res) = None
              THEN Some(NotSupportedError("OTHER-ADDRESS"))
              ELSE None
MappingTest1Err(res) ==
    IF Propagates(res) THEN res.err
    ELSE IF get_other_address(res) = None
         THEN Some(NotSupportedError("OTHER-ADDRESS"))
         ELSE IF get_xor_mapped_address(res) = None
              THEN Some(NotSupportedError("XOR-MAPPED-ADDRESS"))
              ELSE None

\* for (_, local_ip) in local_ips { if local_ip == addr { .. return } }
IsLocalIpAll(ips, addr) == \A local_ip \in ips : local_ip = addr.ip
IsLocalIp(ips, addr) == \E local_ip \in ips : local_ip = addr.ip

\* result.test1_xor_mapped_addr == result.test2_xor_mapped_addr
Test2ConclusiveIpOnly(r) ==
    {a.ip : a \in r.test1_xor_mapped_addr} = {a.ip : a \in r.test2_xor_mapped_addr}
Test2ConclusiveT3(r) == r.test1_xor_mapped_addr = r.test3_xor_mapped_addr
Test2Conclusive(r) == r.test1_xor_mapped_addr = r.test2_xor_mapped_addr

\* result.test2_xor_mapped_addr == result.test3_xor_mapped_addr
Test3ConclusiveT1(r) == r.test1_xor_mapped_addr = r.test3_xor_mapped_addr
Test3ConclusiveIpOnly(r) ==
    {a.ip : a \in r.test2_xor_mapped_addr} = {a.ip : a \in r.test3_xor_mapped_addr}
Test3Conclusive(r) == r.test2_xor_mapped_addr = r.test3_xor_mapped_addr

\* The classification after Test3.
MappingTest3TypeEI(r) ==
    IF Test3Conclusive(r) THEN "EndpointIndependent" ELSE "AddressAndPortDependent"
MappingTest3TypeUnset(r) ==
    IF Test3Conclusive(r) THEN "AddressDependent" ELSE r.mapping_type
MappingTest3Type(r) ==
    IF Test3Conclusive(r) THEN "AddressDependent" ELSE "AddressAndPortDependent"

\* t3_addr: the first resolved address of stun_addr with other_addr's port.
set_port(a, p) == [a EXCEPT !.port = p]
Test3AddrNoPort(resolved, other) == Head(resolved.addrs)
Test3Addr(resolved, other) == set_port(Head(resolved.addrs), other.port)

\* Both unwraps on the resolution of stun_addr succeed.
ResolveUnwraps(resolved) == resolved.ok /\ resolved.addrs # <<>>

Return(r) == ret' = r /\ pc' = "done"

\* The call up to the first await: the fresh result, the local interfaces
\* (unwrap panics on Err), and the Test1 request to stun_addr.
CheckNatMappingBehavior(netifas) ==
    /\ pc = "idle"
    /\ proc' = "mapping"
    /\ result' = NATMappingTypeResult(None, None, None, "Unknown")
    /\ IF ~netifas.ok
       THEN /\ Return(RetPanic)
            /\ UNCHANGED <<local_ips, requests>>
       ELSE /\ local_ips' = netifas.ips
            /\ requests' = Append(requests, Request(1, StunAddrTarget, None))
            /\ pc' = "m_test1"
            /\ UNCHANGED ret
    /\ UNCHANGED <<other_addr, xor_mapped_addr, t1_res, t2_res, t3_res,
                   stun_addrs>>

\* From the Test1 response to the Test2 request or a return.
MappingTest1(res) ==
    /\ pc = "m_test1"
    /\ t1_res' = res
    /\ IF MappingTest1Err(res) # None
       THEN /\ Return(RetErr(Unwrap(MappingTest1Err(res))))
            /\ other_addr' = IF Propagates(res) THEN other_addr
                             ELSE get_other_address(res)
            /\ UNCHANGED <<result, requests>>
       ELSE LET r1 == [result EXCEPT
                         !.test1_xor_mapped_addr = get_xor_mapped_address(res)]
                addr == Unwrap(r1.test1_xor_mapped_addr)
            IN /\ other_addr' = get_other_address(res)
               /\ IF IsLocalIp(local_ips, addr)
                  THEN /\ result' = [r1 EXCEPT !.mapping_type = "NoNAT"]
                       /\ Return(RetOkMapping(result'))
                       /\ UNCHANGED requests
                  ELSE /\ result' = r1
                       /\ requests' = Append(requests,
                             Request(2, SocketTarget(Unwrap(other_addr')), None))
                       /\ pc' = "m_test2"
                       /\ UNCHANGED ret
    /\ UNCHANGED <<proc, local_ips, xor_mapped_addr, t2_res, t3_res,
                   stun_addrs>>

\* From the Test2 response to the resolution of stun_addr or a return.
MappingTest2(res) ==
    /\ pc = "m_test2"
    /\ t2_res' = res
    /\ IF RequireXorMapped(res) # None
       THEN /\ Return(RetErr(Unwrap(RequireXorMapped(res))))
            /\ UNCHANGED result
       ELSE LET r2 == [result EXCEPT
                         !.test2_xor_mapped_addr = get_xor_mapped_address(res)]
            IN IF Test2Conclusive(r2)
               THEN /\ result' = [r2 EXCEPT !.mapping_type = "EndpointIndependent"]
                    /\ Return(RetOkMapping(result'))
               ELSE /\ result' = r2
                    /\ pc' = "m_resolve"
                    /\ UNCHANGED ret
    /\ UNCHANGED <<proc, local_ips, other_addr, xor_mapped_addr, t1_res, t3_res,
                   requests, stun_addrs>>

\* From the resolution of stun_addr (both unwraps panic) to the Test3 request.
MappingResolve(resolved) ==
    /\ pc = "m_resolve"
    /\ IF ~ResolveUnwraps(resolved)
       THEN /\ Return(RetPanic)
            /\ UNCHANGED <<requests, stun_addrs>>
       ELSE /\ stun_addrs' = resolved
            /\ requests' = Append(requests,
                  Request(3, SocketTarget(
                     Test3Addr(resolved, Unwrap(other_addr))), None))
            /\ pc' = "m_test3"
            /\ UNCHANGED ret
    /\ UNCHANGED <<proc, local_ips, other_addr, result, xor_mapped_addr,
                   t1_res, t2_res, t3_res>>

\* From the Test3 response to the return.
MappingTest3(res) ==
    /\ pc = "m_test3"
    /\ t3_res' = res
    /\ stun_addrs' = NoResolution
    /\ IF RequireXorMapped(res) # None
       THEN /\ Return(RetErr(Unwrap(RequireXorMapped(res))))
            /\ UNCHANGED result
       ELSE LET r3 == [result EXCEPT
                         !.test3_xor_mapped_addr = get_xor_mapped_address(res)]
            IN /\ result' = [r3 EXCEPT !.mapping_type = MappingTest3Type(r3)]
               /\ Return(RetOkMapping(result'))
    /\ UNCHANGED <<proc, local_ips, other_addr, xor_mapped_addr, t1_res, t2_res,
                   requests>>

\* ----------------------------------------- check_nat_filtering_behavior
\* attrs of Test2 and Test3: a fresh map holding one CHANGE-REQUEST.
ChangeRequestAttrsSwapped(change_ip, change_port) ==
    Some({<<"ChangeRequest", generate_change_request_value(change_port, change_ip)>>})
ChangeRequestAttrs(change_ip, change_port) ==
    Some({<<"ChangeRequest", generate_change_request_value(change_ip, change_port)>>})

\* match t2_res: Ok => EndpointIndependent; Err(Timeout) => run Test3 (NoRet
\* here); any other Err => that error.
FilteringTest2RetOwnAddr(res, xma) ==
    IF res.kind = "Ok"
    THEN RetOkFiltering(NATFilteringTypeResult(get_xor_mapped_address(res),
                                               "EndpointIndependent"))
    ELSE IF IsTimeoutError(Unwrap(res.err)) THEN NoRet
         ELSE RetErr(Unwrap(res.err))
FilteringTest2Ret(res, xma) ==
    IF res.kind = "Ok"
    THEN RetOkFiltering(NATFilteringTypeResult(xma, "EndpointIndependent"))
    ELSE IF IsTimeoutError(Unwrap(res.err)) THEN NoRet
         ELSE RetErr(Unwrap(res.err))

\* match t3_res: Ok => AddressDependent; Err(Timeout) =>
\* AddressAndPortDependent; any other Err => that error.
FilteringTest3RetSwapped(res, xma) ==
    IF res.kind = "Ok"
    THEN RetOkFiltering(NATFilteringTypeResult(xma, "AddressAndPortDependent"))
    ELSE IF IsTimeoutError(Unwrap(res.err))
         THEN RetOkFiltering(NATFilteringTypeResult(xma, "AddressDependent"))
         ELSE RetErr(Unwrap(res.err))
FilteringTest3Ret(res, xma) ==
    IF res.kind = "Ok"
    THEN RetOkFiltering(NATFilteringTypeResult(xma, "AddressDependent"))
    ELSE IF IsTimeoutError(Unwrap(res.err))
         THEN RetOkFiltering(NATFilteringTypeResult(xma, "AddressAndPortDependent"))
         ELSE RetErr(Unwrap(res.err))

\* The call up to the first await: the Test1 request to stun_addr.
CheckNatFilteringBehavior ==
    /\ pc = "idle"
    /\ proc' = "filtering"
    /\ requests' = Append(requests, Request(1, StunAddrTarget, None))
    /\ pc' = "f_test1"
    /\ UNCHANGED <<local_ips, other_addr, result, xor_mapped_addr,
                   t1_res, t2_res, t3_res, ret,
                   stun_addrs>>

\* From the Test1 response to the Test2 request or a return.
FilteringTest1(res) ==
    /\ pc = "f_test1"
    /\ t1_res' = res
    /\ IF RequireXorMapped(res) # None
       THEN /\ Return(RetErr(Unwrap(RequireXorMapped(res))))
            /\ UNCHANGED <<xor_mapped_addr, requests>>
       ELSE /\ xor_mapped_addr' = get_xor_mapped_address(res)
            /\ requests' = Append(requests,
                  Request(2, StunAddrTarget, ChangeRequestAttrs(TRUE, TRUE)))
            /\ pc' = "f_test2"
            /\ UNCHANGED ret
    /\ UNCHANGED <<proc, local_ips, other_addr, result, t2_res, t3_res,
                   stun_addrs>>

\* From the Test2 outcome to the Test3 request or a return.
FilteringTest2(res) ==
    /\ pc = "f_test2"
    /\ t2_res' = res
    /\ IF FilteringTest2Ret(res, xor_mapped_addr) # NoRet
       THEN /\ Return(FilteringTest2Ret(res, xor_mapped_addr))
            /\ UNCHANGED requests
       ELSE /\ requests' = Append(requests,
                  Request(3, StunAddrTarget, ChangeRequestAttrs(FALSE, TRUE)))
            /\ pc' = "f_test3"
            /\ UNCHANGED ret
    /\ UNCHANGED <<proc, local_ips, other_addr, result, xor_mapped_addr,
                   t1_res, t3_res,
                   stun_addrs>>

\* From the Test3 outcome to the return.
FilteringTest3(res) ==
    /\ pc = "f_test3"
    /\ t3_res' = res
    /\ Return(FilteringTest3Ret(res, xor_mapped_addr))
    /\ UNCHANGED <<proc, local_ips, other_addr, result, xor_mapped_addr,
                   t1_res, t2_res, requests,
                   stun_addrs>>

\* ------------------------------------------------------- specification
Next ==
    \/ \E netifas \in NetifasOutcomes : CheckNatMappingBehavior(netifas)
    \/ \E res \in BindingOutcomes : MappingTest1(res)
    \/ \E res \in BindingOutcomes : MappingTest2(res)
    \/ \E resolved \in ResolveOutcomes : MappingResolve(resolved)
    \/ \E res \in BindingOutcomes : MappingTest3(res)
    \/ CheckNatFilteringBehavior
    \/ \E res \in BindingOutcomes : FilteringTest1(res)
    \/ \E res \in BindingOutcomes : FilteringTest2(res)
    \/ \E res \in BindingOutcomes : FilteringTest3(res)

Spec == Init /\ [][Next]_vars

TypeOK ==
    /\ proc \in {"none", "mapping", "filtering"}
    /\ pc \in {"idle", "m_test1", "m_test2", "m_resolve", "m_test3",
               "f_test1", "f_test2", "f_test3", "done"}
    /\ local_ips \subseteq IPs
    /\ other_addr \in Option(ServerAddrs)
    /\ xor_mapped_addr \in Option(MappedAddrs)
    /\ ret.kind \in {"None", "Ok", "Err", "Panic"}
    /\ Len(requests) <= 3

\* ------------------------------------------------------------- properties
IsMapping == proc = "mapping"
IsFiltering == proc = "filtering"
HasXorMapped(res) == res.kind = "Ok" /\ res.xor_mapped_address # None
TimedOut(res) == res.kind = "Err" /\ res.err = Some(TimeoutError)
FailedOtherwise(res) == res.kind = "Err" /\ res.err # Some(TimeoutError)
ReturnedMappingType(t) ==
    /\ pc = "done" /\ ret.kind = "Ok"
    /\ \E r \in ret.mapping : r.mapping_type = t
ReturnedFilteringType(t) ==
    /\ pc = "done" /\ ret.kind = "Ok"
    /\ \E r \in ret.filtering : r.filtering_type = t
ReturnedErr(e) == pc = "done" /\ ret = RetErr(e)

\* C1: in check_nat_mapping_behavior, when the Test1 response carries
\* OTHER-ADDRESS and an XOR-MAPPED-ADDRESS whose IP is one of the local
\* interface IPs (whatever its port), the procedure has returned Ok with
\* mapping_type NoNAT and exactly one Binding request was issued.
Test1IsLocal ==
    /\ IsMapping
    /\ HasXorMapped(t1_res)
    /\ t1_res.other_address # None
    /\ \E a \in t1_res.xor_mapped_address : a.ip \in local_ips
C1_NoNAT ==
    Test1IsLocal => ReturnedMappingType("NoNAT") /\ Len(requests) = 1
C1_Witness ==
    /\ Test1IsLocal
    /\ ReturnedMappingType("NoNAT")
    /\ Cardinality(local_ips) = 2

\* C2: in check_nat_mapping_behavior, when Test2 was executed and its
\* XOR-MAPPED-ADDRESS is identical (IP and port) to that of Test1, the
\* procedure has returned Ok with mapping_type EndpointIndependent after
\* exactly two Binding requests: Test3 was never sent.
Test2SameAsTest1 ==
    /\ IsMapping
    /\ HasXorMapped(t2_res)
    /\ t2_res.xor_mapped_address = t1_res.xor_mapped_address
C2_EndpointIndependent ==
    Test2SameAsTest1 =>
        /\ ReturnedMappingType("EndpointIndependent")
        /\ Len(requests) = 2
        /\ \A i \in 1..Len(requests) : requests[i].test # 3
        /\ t3_res = NoResponse
C2_Witness ==
    Test2SameAsTest1 /\ ReturnedMappingType("EndpointIndependent")

\* C3: in check_nat_mapping_behavior, when the mapped addresses of Test1 and
\* Test2 differ and those of Test2 and Test3 are identical, the procedure has
\* returned Ok with mapping_type AddressDependent after exactly three
\* Binding requests.
Test3SameAsTest2 ==
    /\ IsMapping
    /\ HasXorMapped(t3_res)
    /\ t1_res.xor_mapped_address # t2_res.xor_mapped_address
    /\ t2_res.xor_mapped_address = t3_res.xor_mapped_address
C3_AddressDependent ==
    Test3SameAsTest2 =>
        ReturnedMappingType("AddressDependent") /\ Len(requests) = 3
C3_Witness ==
    Test3SameAsTest2 /\ ReturnedMappingType("AddressDependent")

\* C4: check_nat_mapping_behavior returns AddressAndPortDependent exactly
\* when all three tests completed with Test1 # Test2 and Test2 # Test3;
\* Test1 is never compared with Test3, so pairwise distinct addresses and
\* Test1 = Test3 # Test2 are both classified AddressAndPortDependent.
Test3DiffersFromTest2 ==
    /\ HasXorMapped(t3_res)
    /\ t1_res.xor_mapped_address # t2_res.xor_mapped_address
    /\ t2_res.xor_mapped_address # t3_res.xor_mapped_address
C4_AddressAndPortDependent ==
    IsMapping =>
        (ReturnedMappingType("AddressAndPortDependent") <=> Test3DiffersFromTest2)
C4_Witness ==
    /\ IsMapping
    /\ ReturnedMappingType("AddressAndPortDependent")
    /\ t1_res.xor_mapped_address = t3_res.xor_mapped_address

\* C5 as stated: in both procedures, a Test1 response without
\* XOR-MAPPED-ADDRESS, whatever else it carries or lacks, makes the procedure
\* fail with NotSupported("XOR-MAPPED-ADDRESS") after one Binding request.
Test1LacksXorMapped ==
    /\ proc # "none"
    /\ t1_res.kind = "Ok"
    /\ t1_res.xor_mapped_address = None
C5_Original ==
    Test1LacksXorMapped =>
        /\ ReturnedErr(NotSupportedError("XOR-MAPPED-ADDRESS"))
        /\ Len(requests) = 1

\* C5 amended: in both procedures a Test1 response without
\* XOR-MAPPED-ADDRESS makes the procedure fail with a NotSupported error
\* after one Binding request; the error names XOR-MAPPED-ADDRESS, except in
\* check_nat_mapping_behavior when the response lacks OTHER-ADDRESS too,
\* where it names OTHER-ADDRESS.
C5_Amended ==
    Test1LacksXorMapped =>
        /\ ReturnedErr(NotSupportedError(
              IF IsMapping /\ t1_res.other_address = None
              THEN "OTHER-ADDRESS" ELSE "XOR-MAPPED-ADDRESS"))
        /\ Len(requests) = 1
C5_Witness ==
    /\ Test1LacksXorMapped
    /\ IsMapping
    /\ t1_res.other_address = None
    /\ ReturnedErr(NotSupportedError("OTHER-ADDRESS"))

\* C6: in check_nat_filtering_behavior, after a Test1 response with
\* XOR-MAPPED-ADDRESS, the returned classification is this function of the
\* Test2/Test3 outcomes: any Test2 response => EndpointIndependent; Test2
\* Timeout and any Test3 response => AddressDependent; Test2 Timeout and
\* Test3 Timeout => AddressAndPortDependent; nothing else returns Ok.
ExpectedFilteringType ==
    IF t2_res.kind = "Ok" THEN "EndpointIndependent"
    ELSE IF TimedOut(t2_res) /\ t3_res.kind = "Ok" THEN "AddressDependent"
    ELSE IF TimedOut(t2_res) /\ TimedOut(t3_res) THEN "AddressAndPortDependent"
    ELSE "none"
C6_FilteringClassification ==
    (IsFiltering /\ HasXorMapped(t1_res)) =>
        IF ExpectedFilteringType = "none"
        THEN ret.kind # "Ok"
        ELSE ReturnedFilteringType(ExpectedFilteringType)
C6_Witness ==
    /\ IsFiltering
    /\ TimedOut(t2_res) /\ TimedOut(t3_res)
    /\ ReturnedFilteringType("AddressAndPortDependent")

\* C7: in check_nat_filtering_behavior a non-Timeout error of Test2 or of
\* Test3 is returned unchanged as the procedure's error; after such an error
\* at Test2 no Test3 is issued, and no classification is produced.
C7_FilteringErrorsPropagate ==
    IsFiltering =>
        /\ FailedOtherwise(t2_res) =>
              /\ ReturnedErr(Unwrap(t2_res.err))
              /\ Len(requests) = 2
              /\ t3_res = NoResponse
              /\ ret.filtering = None
        /\ FailedOtherwise(t3_res) =>
              /\ ReturnedErr(Unwrap(t3_res.err))
              /\ ret.filtering = None
C7_Witness ==
    /\ IsFiltering
    /\ t2_res.err = Some(IOError)
    /\ ReturnedErr(IOError)

\* C8: a Timeout at Test1 of either procedure, or at Test2 or Test3 of
\* check_nat_mapping_behavior, makes the procedure return that Timeout with
\* no classification and no further Binding request; check_nat_filtering_
\* behavior returns a Timeout error only for a Timeout at Test1.
C8_TimeoutIsFatalElsewhere ==
    /\ (proc # "none" /\ TimedOut(t1_res)) =>
          ReturnedErr(TimeoutError) /\ Len(requests) = 1
    /\ (IsMapping /\ TimedOut(t2_res)) =>
          ReturnedErr(TimeoutError) /\ Len(requests) = 2
    /\ (IsMapping /\ TimedOut(t3_res)) =>
          ReturnedErr(TimeoutError) /\ Len(requests) = 3
    /\ (IsFiltering /\ ret = RetErr(TimeoutError)) => TimedOut(t1_res)
C8_Witness ==
    /\ IsMapping
    /\ TimedOut(t3_res)
    /\ ReturnedErr(TimeoutError)

\* C9: for both procedures an Ok return never carries the Unknown
\* classification and always carries the Test1 mapped address; Unknown is
\* only the placeholder of the mapping result before the procedure returns.
Classifications ==
    {"EndpointIndependent", "AddressDependent", "AddressAndPortDependent"}
C9_OkIsDefinitive ==
    ret.kind = "Ok" =>
        /\ IsMapping =>
              /\ ret.mapping # None
              /\ \A r \in ret.mapping :
                    /\ r.mapping_type \in Classifications \cup {"NoNAT"}
                    /\ r.test1_xor_mapped_addr # None
                    /\ r.test1_xor_mapped_addr = t1_res.xor_mapped_address
        /\ IsFiltering =>
              /\ ret.filtering # None
              /\ \A r \in ret.filtering :
                    /\ r.filtering_type \in Classifications
                    /\ r.xor_mapped_addr # None
C9_Witness ==
    /\ IsMapping
    /\ ret.kind = "Ok"
    /\ Len(requests) = 3
    /\ \A r \in ret.mapping : r.mapping_type # "Unknown"

\* C10: every invocation of either procedure, whatever the collaborators
\* return (failure of the local-interface enumeration, failure or emptiness
\* of the resolution of stun_addr included), ends with an Ok result or an Err
\* value returned to the caller; it never aborts without returning.
C10_AlwaysReturns ==
    pc = "done" => ret.kind \in {"Ok", "Err"}

\* C11: in every successful result of check_nat_mapping_behavior a mapped
\* address field is present exactly when its test was executed: NoNAT has
\* only test1; EndpointIndependent has test1 and test2 but not test3;
\* AddressDependent and AddressAndPortDependent have all three.
Present(r) ==
    <<r.test1_xor_mapped_addr # None, r.test2_xor_mapped_addr # None,
      r.test3_xor_mapped_addr # None>>
Executed == <<t1_res # NoResponse, t2_res # NoResponse, t3_res # NoResponse>>
C11_FieldsFollowTests ==
    (IsMapping /\ ret.kind = "Ok") =>
        \A r \in ret.mapping :
            /\ Present(r) = Executed
            /\ r.mapping_type = "NoNAT" => Present(r) = <<TRUE, FALSE, FALSE>>
            /\ r.mapping_type = "EndpointIndependent" =>
                  Present(r) = <<TRUE, TRUE, FALSE>>
            /\ r.mapping_type \in {"AddressDependent", "AddressAndPortDependent"} =>
                  Present(r) = <<TRUE, TRUE, TRUE>>
C11_Witness ==
    /\ IsMapping
    /\ ReturnedMappingType("EndpointIndependent")
    /\ Executed = <<TRUE, TRUE, FALSE>>
    /\ \A r \in ret.mapping : Present(r) = <<TRUE, TRUE, FALSE>>

\* C12: address comparison in check_nat_mapping_behavior is exact on IP and
\* port: EndpointIndependent is returned only if the Test1 and Test2 mapped
\* addresses agree in IP and in port, AddressDependent only if those of Test2
\* and Test3 do; the same IP with another port is never treated as equal.
SameIpAndPort(o1, o2) ==
    /\ o1 # None /\ o2 # None
    /\ \A a \in o1, b \in o2 : a.ip = b.ip /\ a.port = b.port
SameIpOtherPort(o1, o2) ==
    \E a \in o1, b \in o2 : a.ip = b.ip /\ a.port # b.port
C12_ExactComparison ==
    IsMapping =>
        /\ ReturnedMappingType("EndpointIndependent") =>
              SameIpAndPort(t1_res.xor_mapped_address, t2_res.xor_mapped_address)
        /\ ReturnedMappingType("AddressDependent") =>
              SameIpAndPort(t2_res.xor_mapped_address, t3_res.xor_mapped_address)
        /\ SameIpOtherPort(t1_res.xor_mapped_address, t2_res.xor_mapped_address) =>
              ~ReturnedMappingType("EndpointIndependent")
        /\ SameIpOtherPort(t2_res.xor_mapped_address, t3_res.xor_mapped_address) =>
              ~ReturnedMappingType("AddressDependent")
C12_Witness ==
    /\ IsMapping
    /\ SameIpOtherPort(t1_res.xor_mapped_address, t2_res.xor_mapped_address)
    /\ SameIpOtherPort(t2_res.xor_mapped_address, t3_res.xor_mapped_address)
    /\ ReturnedMappingType("AddressAndPortDependent")

\* C14: in every successful result of check_nat_filtering_behavior, whatever
\* the classification, xor_mapped_addr is the XOR-MAPPED-ADDRESS of the Test1
\* response; the Test2 and Test3 responses never change it.
C14_FilteringAddrIsTest1 ==
    (IsFiltering /\ ret.kind = "Ok") =>
        /\ ret.filtering # None
        /\ \A r \in ret.filtering :
              /\ r.xor_mapped_addr # None
              /\ r.xor_mapped_addr = t1_res.xor_mapped_address
C14_Witness ==
    /\ IsFiltering
    /\ ReturnedFilteringType("EndpointIndependent")
    /\ t2_res.xor_mapped_address # t1_res.xor_mapped_address
    /\ \A r \in ret.filtering : r.xor_mapped_addr = t1_res.xor_mapped_address

\* C15: in each procedure the Binding requests are issued in the order
\* Test1, Test2, Test3, each at most once, a later test only after the
\* outcome of the previous one is known, and none after a terminal outcome;
\* hence an invocation issues between one and three Binding requests and
\* Test3 is never issued without Test2 before it.
RequestsInOrder ==
    /\ Len(requests) <= 3
    /\ \A i \in 1..Len(requests) : requests[i].test = i
    /\ Len(requests) >= 2 => t1_res # NoResponse
    /\ Len(requests) >= 3 => t2_res # NoResponse
    /\ t1_res # NoResponse => Len(requests) >= 1
    /\ t2_res # NoResponse => Len(requests) >= 2
    /\ t3_res # NoResponse => Len(requests) = 3
    /\ ret # NoRet => pc = "done"
C15_RequestOrder ==
    /\ RequestsInOrder
    /\ pc = "done" => Len(requests) \in 1..3

\* C16: in check_nat_mapping_behavior Test1 is sent to stun_addr, Test2 to
\* exactly the OTHER-ADDRESS of the Test1 response, and Test3 to the address
\* whose IP is that of the first address stun_addr resolved to and whose port
\* is the port of OTHER-ADDRESS; none of the requests carries attributes.
C16_MappingTargets ==
    IsMapping =>
        /\ \A i \in 1..Len(requests) : requests[i].attrs = None
        /\ Len(requests) >= 1 => requests[1].target = StunAddrTarget
        /\ Len(requests) >= 2 =>
              /\ requests[2].target.kind = "socket"
              /\ requests[2].target.addr = t1_res.other_address
        /\ Len(requests) >= 3 =>
              /\ requests[3].target.kind = "socket"
              /\ \A a \in requests[3].target.addr, o \in t1_res.other_address :
                    a.ip \in ServerIPs /\ a.port = o.port
        /\ pc = "m_test3" =>
              /\ Len(requests) = 3
              /\ stun_addrs.ok /\ stun_addrs.addrs # <<>>
              /\ requests[3].target.addr =
                    {[ip |-> stun_addrs.addrs[1].ip,
                      port |-> Unwrap(t1_res.other_address).port]}
C16_Witness ==
    /\ IsMapping
    /\ pc = "m_test3"
    /\ Len(stun_addrs.addrs) = 2
    /\ stun_addrs.addrs[1].ip # stun_addrs.addrs[2].ip
    /\ stun_addrs.addrs[1].port # Unwrap(t1_res.other_address).port
    /\ Unwrap(requests[3].target.addr).ip = stun_addrs.addrs[1].ip

\* C17: in check_nat_filtering_behavior every request is sent to stun_addr;
\* Test1 carries no attributes, Test2 exactly one CHANGE-REQUEST built from
\* (change-IP true, change-port true) and Test3 exactly one built from
\* (change-IP false, change-port true), not inheriting the flags of Test2.
OneChangeRequest(attrs, change_ip, change_port) ==
    /\ attrs # None
    /\ \A m \in attrs :
          /\ Cardinality(m) = 1
          /\ m = {<<"ChangeRequest",
                    [change_ip |-> change_ip, change_port |-> change_port]>>}
C17_FilteringRequests ==
    IsFiltering =>
        /\ \A i \in 1..Len(requests) : requests[i].target = StunAddrTarget
        /\ Len(requests) >= 1 => requests[1].attrs = None
        /\ Len(requests) >= 2 => OneChangeRequest(requests[2].attrs, TRUE, TRUE)
        /\ Len(requests) >= 3 => OneChangeRequest(requests[3].attrs, FALSE, TRUE)
C17_Witness ==
    /\ IsFiltering
    /\ Len(requests) = 3
    /\ OneChangeRequest(requests[3].attrs, FALSE, TRUE)

\* C18: in check_nat_mapping_behavior a Test1 response without OTHER-ADDRESS
\* makes the procedure fail with NotSupported("OTHER-ADDRESS") after one
\* Binding request; the check precedes the No-NAT short-circuit, so no NoNAT
\* result is returned even when the mapped IP is a local interface IP.
Test1LacksOther ==
    /\ IsMapping
    /\ t1_res.kind = "Ok"
    /\ t1_res.other_address = None
C18_OtherAddressRequired ==
    Test1LacksOther =>
        /\ ReturnedErr(NotSupportedError("OTHER-ADDRESS"))
        /\ Len(requests) = 1
        /\ ret.mapping = None
C18_Witness ==
    /\ Test1LacksOther
    /\ \E a \in t1_res.xor_mapped_address : a.ip \in local_ips
    /\ ReturnedErr(NotSupportedError("OTHER-ADDRESS"))

\* C19: in check_nat_mapping_behavior a Test2 response without
\* XOR-MAPPED-ADDRESS makes the procedure fail with
\* NotSupported("XOR-MAPPED-ADDRESS") and Test3 is never issued; a Test3
\* response without it fails with the same error; neither returns a result.
C19_LaterXorMappedRequired ==
    IsMapping =>
        /\ (t2_res.kind = "Ok" /\ t2_res.xor_mapped_address = None) =>
              /\ ReturnedErr(NotSupportedError("XOR-MAPPED-ADDRESS"))
              /\ Len(requests) = 2
              /\ t3_res = NoResponse
              /\ ret.mapping = None
        /\ (t3_res.kind = "Ok" /\ t3_res.xor_mapped_address = None) =>
              /\ ReturnedErr(NotSupportedError("XOR-MAPPED-ADDRESS"))
              /\ Len(requests) = 3
              /\ ret.mapping = None
C19_Witness ==
    /\ IsMapping
    /\ t3_res.kind = "Ok" /\ t3_res.xor_mapped_address = None
    /\ result.test2_xor_mapped_addr # None
    /\ ReturnedErr(NotSupportedError("XOR-MAPPED-ADDRESS"))

====
